---------------------------- MODULE Spec2Model ----------------------------
(***************************************************************************)
(* SABR smile interpolation (ql/math/interpolations/sabrinterpolation.hpp) *)
(* as a state machine.                                                     *)
(*                                                                         *)
(* Reals are modelled on small integer grids, one grid per quantity:       *)
(*   alpha, nu : integers, eps1_ = 2 grid units; the unconstrained         *)
(*               coordinate u gives u*u + eps1_;                           *)
(*   beta      : integers 0..BetaOne, BetaOne = 1.0; exp(-u*u) is computed *)
(*               in base 2 with BetaBits fractional bits and underflows to *)
(*               0 exactly as the double does for large u;                 *)
(*   rho       : integers, RhoOne = 1.0, eps2_ < RhoOne; the unconstrained *)
(*               coordinate is counted in quarter turns, so sin is exact.  *)
(* sqrt, log and asin round to the grid as the IEEE functions round to the *)
(* doubles; outside their domain they give NaN (never an exception), and   *)
(* NaN propagates through arithmetic and makes every comparison false.     *)
(* Weights are exact fractions <<numerator, denominator>>.                 *)
(***************************************************************************)
EXTENDS Integers, Sequences, FiniteSets

VARIABLES
    forward,            \* the externally owned cell forward_ refers to
    smile,              \* [x |-> strikes, y |-> vols] : xBegin_..xEnd_, yBegin_
    t_,
    alpha_, beta_, nu_, rho_,
    alphaIsFixed_, betaIsFixed_, nuIsFixed_, rhoIsFixed_,
    weights_,
    error_, maxError_,
    SABREndCriteria_,
    vegaWeighted_,
    pc,                 \* "idle", or "minimize": update() is inside optMethod_->minimize
    fixedParameters_,   \* ProjectedCostFunction's copy of inversedTransformatedGuess
    parameterAreFixed,  \* ProjectedCostFunction's copy of the flags
    currentValue,       \* problem.currentValue()
    nMinimize,          \* minimize() invocations of the current / last update()
    ctorArgs,           \* what the constructor was called with: alpha, beta, nu, rho
                        \* (NullReal when not given) and the four flags; remembered
                        \* under SpecCtor only
    ret                 \* the last call: what it was, whether it returned (ok) or threw,
                        \* its argument and result, the reason minimize returned;
                        \* the result of an optimizing update() is 1 when the
                        \* parameters it stored replaced other ones that the last
                        \* cost evaluation had written, 0 otherwise

vars == <<forward, smile, t_, alpha_, beta_, nu_, rho_,
          alphaIsFixed_, betaIsFixed_, nuIsFixed_, rhoIsFixed_,
          weights_, error_, maxError_, SABREndCriteria_, vegaWeighted_,
          pc, fixedParameters_, parameterAreFixed, currentValue,
          nMinimize, ctorArgs, ret>>

-----------------------------------------------------------------------------
(* Bounds of the model *)

MaxU == 1
MaxForward == 2

U == (0 - MaxU)..MaxU
Forwards == 0..MaxForward

-----------------------------------------------------------------------------
(* Special values of Real *)

NaN == -1000
Inf == 1000
NullReal == -2000
QL_MIN_REAL == -3000

(* Grid constants *)
eps1_ == 2
eps2_ == 3
RhoOne == 5
BetaBits == 1
BetaOne == 2
AlphaDefault == 6
BetaDefault == 1
NuDefault == 3
RhoDefault == 0

RECURSIVE Pow2(_)
Pow2(e) == IF e <= 0 THEN 1 ELSE 2 * Pow2(e - 1)

Abs(v) == IF v < 0 THEN 0 - v ELSE v

\* std::sqrt, rounded to the nearest grid point
Sqrt(v) ==
    IF v = NaN THEN NaN
    ELSE IF v = Inf THEN Inf
    ELSE IF v < 0 THEN NaN
    ELSE CHOOSE r \in 0..v : (r = 0 \/ r * r - r < v) /\ v <= r * r + r

\* x*x
Sq(v) == IF v = NaN THEN NaN ELSE IF v = Inf THEN Inf ELSE v * v

\* std::exp(-s) for s = u*u >= 0, on the beta grid
ExpNeg(s) ==
    IF s = NaN THEN NaN
    ELSE IF s = Inf THEN 0
    ELSE IF s > BetaBits THEN 0
    ELSE Pow2(BetaBits - s)

\* -std::log(b) on the beta grid
NegLog(b) ==
    IF b = NaN THEN NaN
    ELSE IF b < 0 THEN NaN
    ELSE IF b = 0 THEN Inf
    ELSE BetaBits - (CHOOSE e \in 0..b : Pow2(e) <= b /\ b < Pow2(e + 1))

\* std::sin, the argument counted in quarter turns
Sin(u) ==
    IF u = NaN \/ u = Inf THEN NaN
    ELSE CASE u % 4 = 0 -> 0
           [] u % 4 = 1 -> 1
           [] u % 4 = 2 -> 0
           [] OTHER -> -1

\* std::asin(r / eps2_), in quarter turns, rounded to the nearest
AsinOverEps2(r) ==
    IF r = NaN THEN NaN
    ELSE IF Abs(r) > eps2_ THEN NaN
    ELSE IF 2 * r * r > eps2_ * eps2_ THEN (IF r > 0 THEN 1 ELSE -1)
    ELSE 0

-----------------------------------------------------------------------------
(* SabrParametersTransformation *)

direct(x) ==
    << IF Sq(x[1]) \in {NaN, Inf} THEN Sq(x[1]) ELSE Sq(x[1]) + eps1_,
       ExpNeg(Sq(x[2])),
       IF Sq(x[3]) \in {NaN, Inf} THEN Sq(x[3]) ELSE Sq(x[3]) + eps1_,
       IF Sin(x[4]) = NaN THEN NaN ELSE eps2_ * Sin(x[4]) >>

inverse(x) ==
    << IF x[1] = NaN THEN NaN ELSE Sqrt(x[1] - eps1_),
       Sqrt(NegLog(x[2])),
       IF x[3] = NaN THEN NaN ELSE Sqrt(x[3] - eps1_),
       AsinOverEps2(x[4]) >>

-----------------------------------------------------------------------------
(* Collaborators consumed as pure functions *)

\* validateSabrParameters: alpha > 0, 0 <= beta <= 1, nu >= 0, rho*rho < 1
validateSabrParameters(alpha, beta, nu, rho) ==
    /\ alpha > 0
    /\ beta >= 0 /\ beta <= BetaOne
    /\ nu >= 0
    /\ rho > 0 - RhoOne /\ rho < RhoOne

\* sabrVolatility: some fixed function of its arguments; NaN in, NaN out
sabrVolatility(strike, fwd, t, alpha, beta, nu, rho) ==
    IF NaN \in {alpha, beta, nu, rho} THEN NaN
    ELSE alpha + beta * strike + nu * fwd + rho * t

\* blackFormulaStdDevDerivative: zero at zero standard deviation, else positive
blackFormulaStdDevDerivative(strike, fwd, stdDev) ==
    IF stdDev = 0 THEN 0
    ELSE 1 + fwd * stdDev + (IF strike = fwd THEN 1 ELSE 0)

\* ProjectedCostFunction::project : the free components, in order
RECURSIVE project(_, _)
project(v, fixed) ==
    IF Len(v) = 0 THEN <<>>
    ELSE IF Head(fixed) THEN project(Tail(v), Tail(fixed))
    ELSE <<Head(v)>> \o project(Tail(v), Tail(fixed))

\* ProjectedCostFunction::include : the fixed components from fixedParams,
\* the free ones from x, in order
RECURSIVE include(_, _, _)
include(x, fixedParams, fixed) ==
    IF Len(fixed) = 0 THEN <<>>
    ELSE IF Head(fixed)
         THEN <<Head(fixedParams)>> \o include(x, Tail(fixedParams), Tail(fixed))
         ELSE <<Head(x)>> \o include(Tail(x), Tail(fixedParams), Tail(fixed))

-----------------------------------------------------------------------------
(* Exact fractions <<numerator, denominator>>; <<NaN, 1>> is NaN *)

FracNaN == <<NaN, 1>>

FracAdd(a, b) ==
    IF a[1] = NaN \/ b[1] = NaN THEN FracNaN
    ELSE <<a[1] * b[2] + b[1] * a[2], a[2] * b[2]>>

FracDiv(v, d) == IF d = 0 \/ v = NaN THEN FracNaN ELSE <<v, d>>

\* error*error * w
FracScale(e, w) == IF e = NaN \/ w[1] = NaN THEN FracNaN ELSE <<e * e * w[1], w[2]>>

RECURSIVE FracSum(_)
FracSum(ws) == IF Len(ws) = 0 THEN <<0, 1>> ELSE FracAdd(Head(ws), FracSum(Tail(ws)))

RECURSIVE SeqSum(_)
SeqSum(s) == IF Len(s) = 0 THEN 0 ELSE Head(s) + SeqSum(Tail(s))

-----------------------------------------------------------------------------
(* SABRInterpolationImpl: evaluation and error metrics, as functions of the *)
(* fields they read                                                         *)

\* value(x) for x > 0
valueAt(x, fwd, t, p) == sabrVolatility(x, fwd, t, p[1], p[2], p[3], p[4])

Residual(i, sm, fwd, t, p) ==
    IF valueAt(sm.x[i], fwd, t, p) = NaN THEN NaN
    ELSE valueAt(sm.x[i], fwd, t, p) - sm.y[i]

interpolationSquaredError(sm, w, fwd, t, p) ==
    FracSum([i \in 1..Len(sm.x) |-> FracScale(Residual(i, sm, fwd, t, p), w[i])])

\* sqrt(n*squaredError/(n-1)), kept as the fraction under the root
interpolationError(sm, w, fwd, t, p) ==
    LET n == Len(sm.x)
        sq == interpolationSquaredError(sm, w, fwd, t, p)
    IN IF sq[1] = NaN THEN FracNaN ELSE <<n * sq[1], (n - 1) * sq[2]>>

\* std::max(maxError, error) is (maxError < error) ? error : maxError
RECURSIVE MaxErrorFrom(_, _, _, _, _, _)
MaxErrorFrom(i, acc, sm, fwd, t, p) ==
    IF i > Len(sm.x) THEN acc
    ELSE LET r == Residual(i, sm, fwd, t, p)
             e == IF r = NaN THEN NaN ELSE Abs(r)
         IN MaxErrorFrom(i + 1, IF e # NaN /\ acc < e THEN e ELSE acc, sm, fwd, t, p)

interpolationMaxError(sm, fwd, t, p) == MaxErrorFrom(1, QL_MIN_REAL, sm, fwd, t, p)

\* the constructor's weights: n entries of 1/n
UniformWeights(sm) == [i \in 1..Len(sm.x) |-> <<1, Len(sm.x)>>]

Vegas(sm, fwd, t) ==
    [i \in 1..Len(sm.x) |->
        blackFormulaStdDevDerivative(sm.x[i], fwd, Sqrt(sm.y[i] * sm.y[i] * t))]

\* variant: the vegas are stored without the normalisation loop
VegaWeights_raw(sm, fwd, t) ==
    LET v == Vegas(sm, fwd, t)
    IN [i \in 1..Len(sm.x) |-> FracDiv(v[i], 1)]

\* update(): the vega weights, normalised by their sum
VegaWeights(sm, fwd, t) ==
    LET v == Vegas(sm, fwd, t)
    IN [i \in 1..Len(sm.x) |-> FracDiv(v[i], SeqSum(v))]

\* variant: the vega weights are computed on the first update() only
UpdatedWeights_once ==
    IF vegaWeighted_ /\ weights_ = UniformWeights(smile)
    THEN VegaWeights(smile, forward, t_)
    ELSE weights_

UpdatedWeights == IF vegaWeighted_ THEN VegaWeights(smile, forward, t_) ELSE weights_

-----------------------------------------------------------------------------
(* Construction *)

Outcome(op, ok, arg, val, reason) ==
    [op |-> op, ok |-> ok, arg |-> arg, val |-> val, reason |-> reason]

\* the data the smile is built on: strikes (all positive) and market vols
Smiles == { [x |-> <<1, 2, 3>>, y |-> <<2, 1, 2>>],
            [x |-> <<1, 3>>,    y |-> <<1, 2>>] }

\* the smile of the instances whose constructor call is remembered (they are
\* built with uniform weights)
CtorSmiles == { [x |-> <<1, 2, 3>>, y |-> <<2, 1, 2>>] }

\* constructor arguments; NullReal is Null<Real>()
AlphaArgs == {NullReal, 0, 1, 3}
BetaArgs  == {NullReal, 0, 1}
NuArgs    == {NullReal, 0}
RhoArgs   == {NullReal, 2}

\* the caller's four flags
FlagArgs == { <<FALSE, FALSE, FALSE, FALSE>>, <<TRUE, TRUE, TRUE, TRUE>>,
              <<TRUE, FALSE, TRUE, FALSE>>, <<FALSE, TRUE, FALSE, TRUE>> }

\* SABRCoeffHolder's constructor: a null parameter gets its default guess and
\* stays free; a given one takes the caller's flag
CoeffOf(arg, default) == IF arg # NullReal THEN arg ELSE default

\* variant: the caller's flag is taken as passed, also for a null parameter
FlagOf_asPassed(arg, isFixed) == isFixed

FlagOf(arg, isFixed) == IF arg # NullReal THEN isFixed ELSE FALSE

\* the state the two constructors leave
Constructed(sm, f, vw, a, b, n, r, fl) ==
    /\ validateSabrParameters(CoeffOf(a, AlphaDefault), CoeffOf(b, BetaDefault),
                              CoeffOf(n, NuDefault), CoeffOf(r, RhoDefault))
    /\ forward = f
    /\ smile = sm
    /\ t_ = 1
    /\ alpha_ = CoeffOf(a, AlphaDefault)
    /\ beta_ = CoeffOf(b, BetaDefault)
    /\ nu_ = CoeffOf(n, NuDefault)
    /\ rho_ = CoeffOf(r, RhoDefault)
    /\ alphaIsFixed_ = FlagOf(a, fl[1])
    /\ betaIsFixed_ = FlagOf(b, fl[2])
    /\ nuIsFixed_ = FlagOf(n, fl[3])
    /\ rhoIsFixed_ = FlagOf(r, fl[4])
    /\ weights_ = UniformWeights(sm)
    /\ error_ = <<NullReal, 1>>
    /\ maxError_ = NullReal
    /\ SABREndCriteria_ = "None"
    /\ vegaWeighted_ = vw
    /\ pc = "idle"
    /\ fixedParameters_ = <<>>
    /\ parameterAreFixed = <<>>
    /\ currentValue = <<>>
    /\ nMinimize = 0
    /\ ret = Outcome("construct", TRUE, 0, 0, "None")

Init ==
    \E sm \in Smiles, f \in Forwards, vw \in BOOLEAN,
       a \in AlphaArgs, b \in BetaArgs, n \in NuArgs, r \in RhoArgs,
       fl \in FlagArgs :
        /\ Constructed(sm, f, vw, a, b, n, r, fl)
        /\ ctorArgs = "NotRecorded"

\* the same construction, the call's arguments remembered
InitRecorded ==
    \E sm \in CtorSmiles, f \in Forwards, vw \in {FALSE},
       a \in AlphaArgs, b \in BetaArgs, n \in NuArgs, r \in RhoArgs,
       fl \in FlagArgs :
        /\ Constructed(sm, f, vw, a, b, n, r, fl)
        /\ ctorArgs = [alpha |-> a, beta |-> b, nu |-> n, rho |-> r, isFixed |-> fl]

-----------------------------------------------------------------------------
(* Operations *)

Params == <<alpha_, beta_, nu_, rho_>>
Flags == <<alphaIsFixed_, betaIsFixed_, nuIsFixed_, rhoIsFixed_>>
AllFixed == alphaIsFixed_ /\ betaIsFixed_ /\ nuIsFixed_ /\ rhoIsFixed_

data == <<smile, t_, vegaWeighted_, ctorArgs>>
flagVars == <<alphaIsFixed_, betaIsFixed_, nuIsFixed_, rhoIsFixed_>>
problemVars == <<pc, fixedParameters_, parameterAreFixed, currentValue>>

\* the reasons minimize may return (EndCriteria::Type)
EndCriteriaTypes == {"StationaryPoint", "MaxIterations"}

\* the strikes value() is asked for
QueryStrikes == {-1, 0, 1}

\* the owner of the forward moves it, between calls
ForwardMoves ==
    /\ pc = "idle"
    /\ \E f \in Forwards : f # forward /\ forward' = f
    /\ UNCHANGED <<data, flagVars, problemVars, alpha_, beta_, nu_, rho_, weights_,
                   error_, maxError_, SABREndCriteria_, nMinimize, ret>>

\* variant: the forward is checked after the weights have been recomputed
UpdateFails_late ==
    /\ pc = "idle"
    /\ ~(forward > 0)
    /\ weights_' = UpdatedWeights
    /\ ret' = Outcome("update", FALSE, 0, 0, "None")
    /\ UNCHANGED <<forward, data, flagVars, problemVars, alpha_, beta_, nu_, rho_,
                   error_, maxError_, SABREndCriteria_, nMinimize>>

\* update(), forward_ <= 0: QL_REQUIRE throws
UpdateFails ==
    /\ pc = "idle"
    /\ ~(forward > 0)
    /\ ret' = Outcome("update", FALSE, 0, 0, "None")
    /\ UNCHANGED <<forward, data, flagVars, problemVars, alpha_, beta_, nu_, rho_,
                   weights_, error_, maxError_, SABREndCriteria_, nMinimize>>

\* variant: the trivial path returns without recomputing error_
UpdateTrivial_stale ==
    /\ pc = "idle"
    /\ forward > 0
    /\ AllFixed
    /\ weights_' = UpdatedWeights
    /\ maxError_' = interpolationMaxError(smile, forward, t_, Params)
    /\ SABREndCriteria_' = "None"
    /\ nMinimize' = 0
    /\ ret' = Outcome("update", TRUE, 0, 0, "None")
    /\ UNCHANGED <<forward, data, flagVars, problemVars, alpha_, beta_, nu_, rho_,
                   error_>>

\* update(), all four fixed: "there is nothing to optimize"
UpdateTrivial ==
    /\ pc = "idle"
    /\ forward > 0
    /\ AllFixed
    /\ weights_' = UpdatedWeights
    /\ error_' = interpolationError(smile, weights_', forward, t_, Params)
    /\ maxError_' = interpolationMaxError(smile, forward, t_, Params)
    /\ SABREndCriteria_' = "None"
    /\ nMinimize' = 0
    /\ ret' = Outcome("update", TRUE, 0, 0, "None")
    /\ UNCHANGED <<forward, data, flagVars, problemVars, alpha_, beta_, nu_, rho_>>

\* variant: the minimizer is started from the default guesses
UpdateStart_cold ==
    /\ pc = "idle"
    /\ forward > 0
    /\ ~AllFixed
    /\ weights_' = UpdatedWeights
    /\ fixedParameters_' = inverse(Params)
    /\ parameterAreFixed' = Flags
    /\ currentValue' = project(inverse(<<AlphaDefault, BetaDefault, NuDefault,
                                         RhoDefault>>), Flags)
    /\ nMinimize' = 1
    /\ pc' = "minimize"
    /\ ret' = Outcome("minimize", TRUE, 0, 0, "None")
    /\ UNCHANGED <<forward, data, flagVars, alpha_, beta_, nu_, rho_,
                   error_, maxError_, SABREndCriteria_>>

\* update(), some parameter free, up to the call of optMethod_->minimize
UpdateStart ==
    /\ pc = "idle"
    /\ forward > 0
    /\ ~AllFixed
    /\ weights_' = UpdatedWeights
    /\ fixedParameters_' = inverse(Params)
    /\ parameterAreFixed' = Flags
    /\ currentValue' = project(inverse(Params), Flags)
    /\ nMinimize' = 1
    /\ pc' = "minimize"
    /\ ret' = Outcome("minimize", TRUE, 0, 0, "None")
    /\ UNCHANGED <<forward, data, flagVars, alpha_, beta_, nu_, rho_,
                   error_, maxError_, SABREndCriteria_>>

\* the free-parameter vectors the minimizer tries or reports: its starting point and the
\* points with every free coordinate equal
TrialPoints(k, start) == {start} \cup { [i \in 1..k |-> u] : u \in U }

\* SABRError::value / values, called by the minimizer at x
CostEval ==
    /\ pc = "minimize"
    /\ \E x \in TrialPoints(Len(currentValue), currentValue) :
        LET y == direct(include(x, fixedParameters_, parameterAreFixed))
        IN /\ alpha_' = y[1]
           /\ beta_' = y[2]
           /\ nu_' = y[3]
           /\ rho_' = y[4]
    /\ ret' = Outcome("cost", TRUE, 0, 0, "None")
    /\ UNCHANGED <<forward, data, flagVars, problemVars, weights_, error_, maxError_,
                   SABREndCriteria_, nMinimize>>

\* 1 when storing result replaces other parameters left by a cost evaluation
Overwrote(result) ==
    IF ret.op = "cost" /\ result # <<alpha_, beta_, nu_, rho_>> THEN 1 ELSE 0

\* variant: reaching the iteration limit makes update() throw
MinimizeReturns_strict ==
    /\ pc = "minimize"
    /\ \E reason \in EndCriteriaTypes,
          projectedResult \in TrialPoints(Len(currentValue), currentValue) :
        LET result == direct(include(projectedResult, fixedParameters_, parameterAreFixed))
        IN IF reason = "MaxIterations"
           THEN /\ ret' = Outcome("update", FALSE, 0, 0, reason)
                /\ UNCHANGED <<alpha_, beta_, nu_, rho_, error_, maxError_,
                               SABREndCriteria_, currentValue>>
           ELSE /\ SABREndCriteria_' = reason
                /\ alpha_' = result[1]
                /\ beta_' = result[2]
                /\ nu_' = result[3]
                /\ rho_' = result[4]
                /\ error_' = interpolationError(smile, weights_, forward, t_, result)
                /\ maxError_' = interpolationMaxError(smile, forward, t_, result)
                /\ currentValue' = projectedResult
                /\ ret' = Outcome("update", TRUE, 0, Overwrote(result), reason)
    /\ pc' = "idle"
    /\ fixedParameters_' = <<>>
    /\ parameterAreFixed' = <<>>
    /\ UNCHANGED <<forward, data, flagVars, weights_, nMinimize>>

\* variant: update() leaves the parameters as the last cost evaluation wrote
\* them and computes the error metrics from those
MinimizeReturns_lastTrial ==
    /\ pc = "minimize"
    /\ \E reason \in EndCriteriaTypes,
          projectedResult \in TrialPoints(Len(currentValue), currentValue) :
        LET result == direct(include(projectedResult, fixedParameters_, parameterAreFixed))
        IN /\ SABREndCriteria_' = reason
           /\ UNCHANGED <<alpha_, beta_, nu_, rho_>>
           /\ error_' = interpolationError(smile, weights_, forward, t_,
                                           <<alpha_, beta_, nu_, rho_>>)
           /\ maxError_' = interpolationMaxError(smile, forward, t_,
                                                 <<alpha_, beta_, nu_, rho_>>)
           /\ currentValue' = projectedResult
           /\ ret' = Outcome("update", TRUE, 0, Overwrote(result), reason)
    /\ pc' = "idle"
    /\ fixedParameters_' = <<>>
    /\ parameterAreFixed' = <<>>
    /\ UNCHANGED <<forward, data, flagVars, weights_, nMinimize>>

\* minimize returns; update() stores the result and the error metrics
MinimizeReturns ==
    /\ pc = "minimize"
    /\ \E reason \in EndCriteriaTypes,
          projectedResult \in TrialPoints(Len(currentValue), currentValue) :
        LET result == direct(include(projectedResult, fixedParameters_, parameterAreFixed))
        IN /\ SABREndCriteria_' = reason
           /\ alpha_' = result[1]
           /\ beta_' = result[2]
           /\ nu_' = result[3]
           /\ rho_' = result[4]
           /\ error_' = interpolationError(smile, weights_, forward, t_, result)
           /\ maxError_' = interpolationMaxError(smile, forward, t_, result)
           /\ currentValue' = projectedResult
           /\ ret' = Outcome("update", TRUE, 0, Overwrote(result), reason)
    /\ pc' = "idle"
    /\ fixedParameters_' = <<>>
    /\ parameterAreFixed' = <<>>
    /\ UNCHANGED <<forward, data, flagVars, weights_, nMinimize>>

\* variant: the strike is checked with >= instead of >
Value_zero ==
    /\ pc = "idle"
    /\ \E x \in QueryStrikes :
        ret' = IF x >= 0
               THEN Outcome("value", TRUE, x, valueAt(x, forward, t_, Params), "None")
               ELSE Outcome("value", FALSE, x, 0, "None")
    /\ UNCHANGED <<forward, data, flagVars, problemVars, alpha_, beta_, nu_, rho_,
                   weights_, error_, maxError_, SABREndCriteria_, nMinimize>>

\* value(x)
Value ==
    /\ pc = "idle"
    /\ \E x \in QueryStrikes :
        ret' = IF x > 0
               THEN Outcome("value", TRUE, x, valueAt(x, forward, t_, Params), "None")
               ELSE Outcome("value", FALSE, x, 0, "None")
    /\ UNCHANGED <<forward, data, flagVars, problemVars, alpha_, beta_, nu_, rho_,
                   weights_, error_, maxError_, SABREndCriteria_, nMinimize>>

\* update(), from its call to its return or to its call of minimize
update ==
    \/ UpdateFails
    \/ UpdateTrivial
    \/ UpdateStart

Next ==
    \/ ForwardMoves
    \/ update
    \/ CostEval
    \/ MinimizeReturns
    \/ Value

Spec == Init /\ [][Next]_vars

SpecCtor == InitRecorded /\ [][Next]_vars

-----------------------------------------------------------------------------
(* Properties *)

\* a step in which update() returns normally
UpdateReturns == pc' = "idle" /\ ret'.op = "update" /\ ret'.ok /\ (pc = "minimize" \/ update)

IsReal(v) == v # NaN /\ v # Inf

\* the range of the forward transformation: alpha >= eps1, 0 < beta <= 1,
\* nu >= eps1, |rho| <= eps2
InForwardRange(p) ==
    /\ IsReal(p[1]) /\ p[1] >= eps1_
    /\ IsReal(p[2]) /\ p[2] > 0 /\ p[2] <= BetaOne
    /\ IsReal(p[3]) /\ p[3] >= eps1_
    /\ IsReal(p[4]) /\ Abs(p[4]) <= eps2_

(* C1: with all four parameters fixed, every update() with forward > 0 takes *)
(* the trivial path: it returns without invoking the minimizer, leaves       *)
(* alpha, beta, nu, rho as they were, sets the end criteria to None, and     *)
(* recomputes error_ and maxError_ from those values and the smile data.     *)
C1_TrivialPath ==
    [][ (update /\ forward > 0
           /\ alphaIsFixed_ /\ betaIsFixed_ /\ nuIsFixed_ /\ rhoIsFixed_)
        => /\ pc' = "idle"
           /\ ret'.op = "update" /\ ret'.ok
           /\ nMinimize' = 0
           /\ <<alpha_', beta_', nu_', rho_'>> = <<alpha_, beta_, nu_, rho_>>
           /\ SABREndCriteria_' = "None"
           /\ error_' = interpolationError(smile, weights_', forward, t_,
                                           <<alpha_, beta_, nu_, rho_>>)
           /\ maxError_' = interpolationMaxError(smile, forward, t_,
                                                 <<alpha_, beta_, nu_, rho_>>) ]_vars

\* an all-fixed instance after an update(): no minimizer call, metrics set
C1_Witness ==
    /\ alphaIsFixed_ /\ betaIsFixed_ /\ nuIsFixed_ /\ rhoIsFixed_
    /\ pc = "idle" /\ ret.op = "update" /\ ret.ok
    /\ nMinimize = 0
    /\ SABREndCriteria_ = "None"
    /\ error_[1] # NullReal /\ maxError_ # NullReal

(* C2: domain invariant: after update() returns, alpha > 0, beta in the unit *)
(* interval, nu >= 0 and -1 < rho < 1. Stated here with beta = 0 admitted,   *)
(* as the data model of the parameters does; the claim's own 0 < beta is     *)
(* stricter, so a state that violates this violates the claim.               *)
C2_DomainInvariant ==
    (pc = "idle" /\ ret.op = "update" /\ ret.ok)
    => /\ IsReal(alpha_) /\ alpha_ > 0
       /\ IsReal(beta_) /\ beta_ >= 0 /\ beta_ <= BetaOne
       /\ IsReal(nu_) /\ nu_ >= 0
       /\ IsReal(rho_) /\ rho_ > 0 - RhoOne /\ rho_ < RhoOne

(* C3: update() holds every fixed parameter constant: no step of it, neither *)
(* a cost-function evaluation nor the final store, changes a parameter whose *)
(* fixed flag is set.                                                        *)
C3_FixedHeldConstant ==
    [][ /\ alphaIsFixed_ => alpha_' = alpha_
        /\ betaIsFixed_ => beta_' = beta_
        /\ nuIsFixed_ => nu_' = nu_
        /\ rhoIsFixed_ => rho_' = rho_ ]_vars

(* C4: update() with forward <= 0 throws before doing anything else: the     *)
(* minimizer is not invoked and the parameters, weights, error metrics and   *)
(* end criteria keep their values; once forward is positive again, update()  *)
(* runs (on the trivial or on the optimizing path).                          *)
C4_ForwardChecked ==
    /\ [][ (update /\ ~(forward > 0))
           => /\ ret'.op = "update" /\ ~ret'.ok
              /\ pc' = "idle"
              /\ UNCHANGED <<alpha_, beta_, nu_, rho_, weights_, error_, maxError_,
                             SABREndCriteria_, nMinimize, problemVars, flagVars>> ]_vars
    /\ [](( pc = "idle" /\ forward > 0 /\ ret.op = "update" /\ ~ret.ok)
          => ENABLED (UpdateTrivial \/ UpdateStart))

\* an update() that threw, and the forward positive again afterwards
C4_Witness ==
    /\ pc = "idle" /\ ret.op = "update" /\ ~ret.ok
    /\ forward > 0
    /\ vegaWeighted_ /\ weights_ = UniformWeights(smile)

(* C5: on the optimizing path, a parameter guess outside the range of the    *)
(* forward transformation makes update() throw before the minimizer is       *)
(* invoked.                                                                  *)
C5_InverseRejects ==
    [][ (update /\ forward > 0
           /\ ~(alphaIsFixed_ /\ betaIsFixed_ /\ nuIsFixed_ /\ rhoIsFixed_)
           /\ ~InForwardRange(<<alpha_, beta_, nu_, rho_>>))
        => (pc' = "idle" /\ ret'.op = "update" /\ ~ret'.ok /\ nMinimize' = nMinimize) ]_vars

(* C6: non-convergence is soft: whatever reason minimize returns, update()  *)
(* returns normally, stores exactly that reason as the end criteria, stores  *)
(* the image of the minimizer's final point as the parameters and recomputes *)
(* error_ and maxError_ from them; minimize is invoked once per update().    *)
C6_SoftNonConvergence ==
    /\ [][ (pc = "minimize" /\ pc' = "idle")
           => /\ ret'.op = "update" /\ ret'.ok
              /\ ret'.reason \in EndCriteriaTypes
              /\ SABREndCriteria_' = ret'.reason
              /\ <<alpha_', beta_', nu_', rho_'>>
                   = direct(include(currentValue', fixedParameters_, parameterAreFixed))
              /\ error_' = interpolationError(smile, weights_', forward, t_,
                                              <<alpha_', beta_', nu_', rho_'>>)
              /\ maxError_' = interpolationMaxError(smile, forward, t_,
                                                    <<alpha_', beta_', nu_', rho_'>>)
              /\ nMinimize' = 1 ]_vars
    /\ [](nMinimize <= 1)

\* an update() that returned although the minimizer hit its iteration limit
C6_Witness ==
    /\ pc = "idle" /\ ret.op = "update" /\ ret.ok
    /\ ret.reason = "MaxIterations"
    /\ SABREndCriteria_ = "MaxIterations"
    /\ nMinimize = 1
    /\ error_[1] # NullReal

\* the vega of data point i at forward f
VegaAt(i, f) ==
    blackFormulaStdDevDerivative(smile.x[i], f, Sqrt(smile.y[i] * smile.y[i] * t_))

RECURSIVE VegaSumTo(_, _)
VegaSumTo(i, f) == IF i = 0 THEN 0 ELSE VegaAt(i, f) + VegaSumTo(i - 1, f)

(* C7: the weights always have one entry per data point and sum to 1; in     *)
(* uniform mode every entry is 1/n, whatever update() did; in vega-weighted  *)
(* mode with all vegas strictly positive, after update() returns each entry  *)
(* is that point's vega divided by the sum of the vegas.                     *)
C7_Weights ==
    /\ [] /\ Len(weights_) = Len(smile.x)
          /\ IsReal(FracSum(weights_)[1])
          /\ FracSum(weights_)[2] # 0
          /\ FracSum(weights_)[1] = FracSum(weights_)[2]
          /\ ~vegaWeighted_
               => \A i \in 1..Len(smile.x) :
                     weights_[i][1] = 1 /\ weights_[i][2] = Len(smile.x)
    /\ [][ (UpdateReturns /\ vegaWeighted_
              /\ \A i \in 1..Len(smile.x) : VegaAt(i, forward) > 0)
           => \A i \in 1..Len(smile.x) :
                 /\ weights_'[i][1] = VegaAt(i, forward)
                 /\ weights_'[i][2] = VegaSumTo(Len(smile.x), forward) ]_vars

\* a vega-weighted instance after an update(): the weights are no longer 1/n
C7_Witness ==
    /\ vegaWeighted_
    /\ pc = "idle" /\ ret.op = "update" /\ ret.ok
    /\ weights_ # UniformWeights(smile)
    /\ weights_[1][1] = VegaAt(1, forward)

(* C8: in vega-weighted mode every update() recomputes the weights from the  *)
(* forward of that call before the minimizer runs: inside minimize the       *)
(* weights are those of the current forward, and when update() returns (on   *)
(* either path) the weights and error_ are those of the current forward.     *)
C8_WeightsFresh ==
    /\ []((vegaWeighted_ /\ pc = "minimize")
            => weights_ = VegaWeights(smile, forward, t_))
    /\ [][ (UpdateReturns /\ vegaWeighted_)
           => /\ forward' = forward
              /\ weights_' = VegaWeights(smile, forward, t_)
              /\ error_' = interpolationError(smile, VegaWeights(smile, forward, t_),
                                              forward, t_,
                                              <<alpha_', beta_', nu_', rho_'>>) ]_vars

\* inside minimize, in vega-weighted mode, while error_ still is the one an
\* earlier update() computed with other weights than the current ones
C8_Witness ==
    /\ vegaWeighted_ /\ pc = "minimize"
    /\ error_[1] # NullReal /\ error_[1] # NaN
    /\ weights_ = VegaWeights(smile, forward, t_)
    /\ error_[2] # interpolationError(smile, weights_, forward, t_,
                                      <<eps1_, BetaOne, eps1_, 0>>)[2]

(* C9: value(strike) throws for every strike <= 0 and for strike > 0 returns *)
(* sabrVolatility at the stored alpha, beta, nu, rho and the current         *)
(* forward; it changes nothing but its own result.                           *)
C9_Value ==
    [][ (ret' # ret /\ ret'.op = "value")
        => /\ pc = "idle"
           /\ UNCHANGED <<forward, data, flagVars, problemVars, alpha_, beta_, nu_,
                          rho_, weights_, error_, maxError_, SABREndCriteria_,
                          nMinimize>>
           /\ ret'.arg <= 0 => ~ret'.ok
           /\ ret'.arg > 0
                => /\ ret'.ok
                   /\ ret'.val = sabrVolatility(ret'.arg, forward, t_,
                                                alpha_, beta_, nu_, rho_) ]_vars

\* a query answered from the constructor's guesses, before any update()
C9_Witness ==
    /\ ret.op = "value" /\ ret.ok /\ ret.arg > 0
    /\ error_[1] = NullReal
    /\ ret.val = sabrVolatility(ret.arg, forward, t_, alpha_, beta_, nu_, rho_)

\* the parameter vectors a constructor can leave
CtorGuesses ==
    { <<CoeffOf(a, AlphaDefault), CoeffOf(b, BetaDefault),
        CoeffOf(n, NuDefault), CoeffOf(r, RhoDefault)>> :
        a \in AlphaArgs, b \in BetaArgs, n \in NuArgs, r \in RhoArgs }

(* C10: warm start: when update() invokes the minimizer, the starting point  *)
(* is the projection onto the free parameters of the inverse transformation  *)
(* of the parameters stored at the moment of the call.                       *)
C10_WarmStart ==
    [][ (pc = "idle" /\ pc' = "minimize")
        => /\ currentValue' = project(inverse(<<alpha_, beta_, nu_, rho_>>),
                                      <<alphaIsFixed_, betaIsFixed_, nuIsFixed_,
                                        rhoIsFixed_>>)
           /\ <<alpha_', beta_', nu_', rho_'>> = <<alpha_, beta_, nu_, rho_>> ]_vars

\* a later update() inside minimize, started from a point that no
\* construction-time guess gives
C10_Witness ==
    /\ pc = "minimize"
    /\ error_[1] # NullReal
    /\ currentValue = project(fixedParameters_, parameterAreFixed)
    /\ fixedParameters_ \notin { inverse(g) : g \in CtorGuesses }

(* C11: an optimizing update() that returns stores the image             *)
(* direct(include(p)) of the point p the minimizer reports as final, and  *)
(* error_ and maxError_ are the metrics of exactly those parameters under *)
(* the weights and the forward of that update(); what the last cost       *)
(* evaluation wrote into alpha_..rho_ does not survive the return, also   *)
(* when it was written at another point than p.                           *)
C11_FinalPointStored ==
    [][ (pc = "minimize" /\ pc' = "idle" /\ ret'.ok)
        => /\ currentValue' \in TrialPoints(Len(currentValue), currentValue)
           /\ <<alpha_', beta_', nu_', rho_'>>
                = direct(include(currentValue', fixedParameters_, parameterAreFixed))
           /\ forward' = forward /\ weights_' = weights_
           /\ error_' = interpolationError(smile, weights_, forward, t_,
                                           <<alpha_', beta_', nu_', rho_'>>)
           /\ maxError_' = interpolationMaxError(smile, forward, t_,
                                                 <<alpha_', beta_', nu_', rho_'>>)
           /\ ret'.val = IF /\ ret.op = "cost"
                            /\ <<alpha_', beta_', nu_', rho_'>> # <<alpha_, beta_, nu_, rho_>>
                         THEN 1 ELSE 0 ]_vars

\* an update() has returned whose last cost evaluation had left other
\* parameters in alpha_..rho_ than the ones now stored, and the stored error
\* metrics are real numbers
C11_Witness ==
    /\ pc = "idle" /\ ret.op = "update" /\ ret.ok /\ ret.val = 1
    /\ nMinimize = 1
    /\ error_[1] \notin {NullReal, NaN}
    /\ maxError_ \notin {NullReal, NaN, QL_MIN_REAL}

\* the constructor was called with all four flags set and a null parameter
AllFlaggedSomeNull ==
    /\ ctorArgs.isFixed = <<TRUE, TRUE, TRUE, TRUE>>
    /\ NullReal \in {ctorArgs.alpha, ctorArgs.beta, ctorArgs.nu, ctorArgs.rho}

(* C12: the constructor gives a null parameter its default guess          *)
(* (sqrt(0.2), 0.5, sqrt(0.4), 0) and leaves it free whatever flag was     *)
(* passed; a parameter given a value takes that value and the caller's     *)
(* flag; the flags never change afterwards. So an instance built with all  *)
(* four flags and a null parameter is not all-fixed: its update() with a   *)
(* positive forward calls the minimizer.                                   *)
C12_NullIsFreeDefault ==
    /\ [](ret.op = "construct"
            => /\ alpha_ = (IF ctorArgs.alpha = NullReal THEN AlphaDefault ELSE ctorArgs.alpha)
               /\ beta_ = (IF ctorArgs.beta = NullReal THEN BetaDefault ELSE ctorArgs.beta)
               /\ nu_ = (IF ctorArgs.nu = NullReal THEN NuDefault ELSE ctorArgs.nu)
               /\ rho_ = (IF ctorArgs.rho = NullReal THEN RhoDefault ELSE ctorArgs.rho))
    /\ [](/\ alphaIsFixed_ = (ctorArgs.alpha # NullReal /\ ctorArgs.isFixed[1])
          /\ betaIsFixed_ = (ctorArgs.beta # NullReal /\ ctorArgs.isFixed[2])
          /\ nuIsFixed_ = (ctorArgs.nu # NullReal /\ ctorArgs.isFixed[3])
          /\ rhoIsFixed_ = (ctorArgs.rho # NullReal /\ ctorArgs.isFixed[4]))
    /\ [][ (AllFlaggedSomeNull /\ forward > 0 /\ update)
           => (pc' = "minimize" /\ nMinimize' = 1) ]_vars

\* built with all four flags and alpha null: an update() has returned and
\* alpha is no longer its default guess
C12_Witness ==
    /\ ctorArgs.isFixed = <<TRUE, TRUE, TRUE, TRUE>>
    /\ ctorArgs.alpha = NullReal
    /\ ~alphaIsFixed_
    /\ pc = "idle" /\ ret.op = "update" /\ ret.ok
    /\ nMinimize = 1
    /\ alpha_ \notin {AlphaDefault, NaN, Inf}

=============================================================================
